---- MODULE Spec2Model ----
(***************************************************************************)
(* Model of csbigintegerlib::BigInteger (src/src/csBigIntegerLib.hpp).     *)
(*                                                                         *)
(* A BigInteger owns one vector of bytes, _data, kept in big-endian order. *)
(* The state of the model is the _data of every instance constructed so    *)
(* far, the record of how each instance was constructed, and the result of *)
(* the last operation that was called.  The arithmetic and ordering        *)
(* kernels, the string/native constructors and the text helpers are only   *)
(* declared in the header; they are modelled from the written              *)
(* specification (two's-complement values, canonical results).             *)
(***************************************************************************)
EXTENDS Integers, Sequences, FiniteSets

VARIABLES heap, made, res

vars == <<heap, made, res>>

(* ------------------------------ bounds ------------------------------ *)

\* longest little-endian byte sequence handed to BigInteger(vbyte)
MaxLen == 2

\* number of BigInteger instances constructed in one run
MaxObjs == 2

\* largest capacity handed to CopyTo
MaxCap == 3

\* largest shift distance handed to the shift kernels
MaxShift == 2

\* largest operand magnitude handed to the multiplication kernel
MaxMulOperand == 300

\* values of the least significant byte the constructors are fed with: the
\* two sign-extension bytes 0x00 and 0xff, and 0x01
ByteVals == {0, 1, 255}

\* values of the further bytes: the two sign-extension bytes, which make an
\* encoding redundant or not according to the byte below them
ExtVals == {0, 255}

\* previous contents of the buffers handed to CopyTo
FillVals == {1, 255}

\* native integers handed to the operators taking a long
Natives == {0, 2}

\* bases handed to ToString
Bases == {2, 8, 10, 16}

(* ----------------------------- helpers ------------------------------ *)

\* std::reverse
Reverse(s) == [k \in 1..Len(s) |-> s[Len(s) + 1 - k]]

RECURSIVE Pow256(_)
Pow256(k) == IF k = 0 THEN 1 ELSE 256 * Pow256(k - 1)

RECURSIVE Pow2(_)
Pow2(k) == IF k = 0 THEN 1 ELSE 2 * Pow2(k - 1)

\* the little-endian byte sequences of length 0..n whose first (least
\* significant) byte is in Low and whose further bytes are in High
RECURSIVE SeqsUpTo(_, _, _)
SeqsUpTo(Low, High, n) ==
  IF n = 0 THEN {<<>>}
  ELSE IF n = 1 THEN {<<>>} \cup {<<x>> : x \in Low}
  ELSE LET shorter == SeqsUpTo(Low, High, n - 1)
       IN shorter \cup {Append(s, x) : s \in {t \in shorter : Len(t) = n - 1},
                                       x \in High}

Inputs == SeqsUpTo(ByteVals, ExtVals, MaxLen)

\* unsigned value of a big-endian byte sequence
RECURSIVE Unsigned(_)
Unsigned(d) ==
  IF Len(d) = 0 THEN 0
  ELSE 256 * Unsigned(SubSeq(d, 1, Len(d) - 1)) + d[Len(d)]

\* two's-complement value of a non-empty big-endian byte sequence
Value(d) ==
  IF d[1] >= 128 THEN Unsigned(d) - Pow256(Len(d)) ELSE Unsigned(d)

\* n fits in k bytes of two's complement
Fits(n, k) == LET top == n \div Pow256(k - 1) IN top >= -128 /\ top <= 127

RECURSIVE MinBytes(_, _)
MinBytes(n, k) == IF Fits(n, k) THEN k ELSE MinBytes(n, k + 1)

\* the canonical (minimal-length) big-endian encoding of the integer n
Canon(n) ==
  LET k == MinBytes(n, 1)
  IN [j \in 1..k |-> (n \div Pow256(k - j)) % 256]

\* a byte sequence in "its most compressed format"
IsCanonical(d) == Len(d) >= 1 /\ d = Canon(Value(d))

(* ------------------------- static constants ------------------------- *)

Zero == <<0>>

One == <<1>>

MinusOne == <<255>>

\* error biginteger (empty internal bytearray)
Error == <<>>

Statics == {Zero, One, MinusOne, Error}

(* --------------------------- constructors --------------------------- *)

\* BigInteger()
BigIntegerDefault == <<0>>

\* BigInteger(const BigInteger& copy)
BigIntegerCopy(copy) == copy

\* BigInteger(BigInteger&& corpse): the new instance takes the vector, and
\* a vector that was move-constructed from is empty
BigIntegerMove(corpse) == [self |-> corpse, corpse |-> <<>>]

BigIntegerFromBytes_NoPush(data) == Reverse(data)

\* BigInteger(vbyte data), data in little-endian
BigIntegerFromBytes(data) ==
  Reverse(IF Len(data) = 0 THEN Append(data, 0) ELSE data)

\* BigInteger(int64 value), through BigInteger(std::string, 10)
BigIntegerFromLong(value) == Canon(value)

(* ----------------------------- queries ------------------------------ *)

Length(d) == Len(d)

Eq(a, b) == a = b

Ne(a, b) == ~Eq(a, b)

IsZero(d) == Eq(d, Zero)

IsError(d) == Eq(d, Error)

ToByteArray(d) == Reverse(d)


CopyTo_Partial(d, vr, sz_vr) ==
  LET data == Reverse(d)
      n == IF sz_vr < Length(d) THEN sz_vr ELSE Length(d)
  IN [ok |-> sz_vr >= Length(d),
      vr |-> [k \in 1..Len(vr) |-> IF k <= n THEN data[k] ELSE vr[k]]]

\* CopyTo(byte* vr, int sz_vr): the returned flag and the buffer afterwards
CopyTo(d, vr, sz_vr) ==
  IF sz_vr < Length(d)
  THEN [ok |-> FALSE, vr |-> vr]
  ELSE LET data == Reverse(d)
       IN [ok |-> TRUE,
           vr |-> [k \in 1..Len(vr) |-> IF k <= Len(data) THEN data[k] ELSE vr[k]]]

(* ---------------------------- comparison ---------------------------- *)

\* operator< and operator> are external: they order by integer value
Lt(a, b) == Value(a) < Value(b)

Gt(a, b) == Value(a) > Value(b)

\* the answers of the external operator< and operator> for a and b; what
\* they answer for an empty byte sequence is not defined anywhere
KernelAnswers(a, b) ==
  IF Len(a) = 0 \/ Len(b) = 0
  THEN [lt : BOOLEAN, gt : BOOLEAN]
  ELSE {[lt |-> Lt(a, b), gt |-> Gt(a, b)]}

\* operator<=, k holding the answers of operator< and operator>
LessEq(a, b, k) == Eq(a, b) \/ k.lt

GreaterEq_UsesLt(a, b, k) == Eq(a, b) \/ k.lt

\* operator>=, k holding the answers of operator< and operator>
GreaterEq(a, b, k) == Eq(a, b) \/ k.gt

(* ------------------------ arithmetic kernels ------------------------ *)

AbsInt(n) == IF n < 0 THEN -n ELSE n

\* integer division truncating toward zero
TruncDiv(a, b) ==
  LET q == AbsInt(a) \div AbsInt(b)
  IN IF (a < 0) = (b < 0) THEN q ELSE -q

Add(a, b) == Canon(Value(a) + Value(b))

Sub(a, b) == Canon(Value(a) - Value(b))

Mul(a, b) == Canon(Value(a) * Value(b))

Div(a, b) ==
  IF Value(b) = 0 THEN Error ELSE Canon(TruncDiv(Value(a), Value(b)))

Mod(a, b) ==
  IF Value(b) = 0 THEN Error
  ELSE Canon(Value(a) - Value(b) * TruncDiv(Value(a), Value(b)))

\* shifts by a distance that is not negative
Shl(a, b) == Canon(Value(a) * Pow2(Value(b)))

Shr(a, b) == Canon(Value(a) \div Pow2(Value(b)))

Operators == {"+", "-", "*", "/", "%", "<<", ">>"}

\* x op big2, for the operators taking a BigInteger
OperatorBig(op, x, big2) ==
  CASE op = "+" -> Add(x, big2)
    [] op = "-" -> Sub(x, big2)
    [] op = "*" -> Mul(x, big2)
    [] op = "/" -> Div(x, big2)
    [] op = "%" -> Mod(x, big2)
    [] op = "<<" -> Shl(x, big2)
    [] op = ">>" -> Shr(x, big2)

\* x op l2, for the operators taking a long
OperatorLong(op, x, l2) ==
  LET other == BigIntegerFromLong(l2)
  IN CASE op = "+" -> Add(x, other)
       [] op = "-" -> Sub(x, other)
       [] op = "*" -> Mul(x, other)
       [] op = "/" -> Div(x, other)
       [] op = "%" -> Div(x, other)
       [] op = "<<" -> Shl(x, other)
       [] op = ">>" -> Shr(x, other)

\* unary operator-
Negate(x) == Sub(Zero, x)

\* the operands the kernels are called with in this model
InRange(op, a, b) ==
  /\ op = "*" => AbsInt(Value(a)) <= MaxMulOperand /\ AbsInt(Value(b)) <= MaxMulOperand
  /\ op \in {"<<", ">>"} => Value(b) >= 0 /\ Value(b) <= MaxShift


(* ------------------------------- text ------------------------------- *)

HexChars == <<"0", "1", "2", "3", "4", "5", "6", "7",
              "8", "9", "a", "b", "c", "d", "e", "f">>

HexByte(b) == <<HexChars[(b \div 16) + 1], HexChars[(b % 16) + 1]>>

\* Helper::toHexString: two hex digits per byte, in the order given
RECURSIVE toHexString(_)
toHexString(data) ==
  IF Len(data) = 0 THEN <<>> ELSE HexByte(Head(data)) \o toHexString(Tail(data))

\* Helper::revertHexString: the byte pairs of a hex text in reverse order
RECURSIVE revertHexString(_)
revertHexString(hex) ==
  IF Len(hex) < 2 THEN hex
  ELSE revertHexString(SubSeq(hex, 3, Len(hex))) \o SubSeq(hex, 1, 2)

\* Helper::parseBin: the eight bits of a byte, most significant first
parseBin(b) ==
  [k \in 1..8 |-> IF (b \div Pow2(8 - k)) % 2 = 1 THEN "1" ELSE "0"]

\* the loop of ToString(2): parseBin of every stored byte, in stored order
RECURSIVE BinaryText(_)
BinaryText(d) ==
  IF Len(d) = 0 THEN <<>> ELSE parseBin(Head(d)) \o BinaryText(Tail(d))

\* the decimal digits of a natural number
RECURSIVE Digits(_)
Digits(n) ==
  IF n < 10 THEN <<HexChars[n + 1]>>
  ELSE Append(Digits(n \div 10), HexChars[(n % 10) + 1])

\* toStringBase10 of a non-empty instance
toStringBase10(d) ==
  IF Value(d) < 0 THEN <<"-">> \o Digits(-Value(d)) ELSE Digits(Value(d))

\* toHexStr: hex text of the little-endian bytes
toHexStr(d) == toHexString(ToByteArray(d))

ToString_LooseBinary(d, base) ==
  IF base = 16 THEN <<"0", "x">> \o revertHexString(toHexStr(d))
  ELSE IF base <= 8 THEN BinaryText(d)
  ELSE toStringBase10(d)

\* ToString(int base)
ToString(d, base) ==
  IF base = 16 THEN <<"0", "x">> \o revertHexString(toHexStr(d))
  ELSE IF base = 2 THEN BinaryText(d)
  ELSE toStringBase10(d)

\* the base of ToString() called without an argument
DefaultBase == 16


(* ------------------------------ state ------------------------------- *)

\* heap[i] is the _data of the i-th instance constructed, made[i] records
\* whether it was constructed from bytes, the bytes it was given and the
\* _data it started with
Instances == 1..Len(heap)

\* no call is under way: the value the last call returned has been dropped
Idle == res.op = "none"

Init ==
  /\ heap = <<>>
  /\ made = <<>>
  /\ res = [op |-> "none"]

\* a constructor call that leaves the new instance with _data d; sentinel
\* tells that the instance is a copy of the constant Error
Construct(h, d, ctor, input, sentinel) ==
  /\ Idle
  /\ Len(heap) < MaxObjs
  /\ heap' = Append(h, d)
  /\ made' = Append(made, [fromBytes |-> (ctor = "FromBytes"), input |-> input,
                             data |-> d, sentinel |-> sentinel])
  /\ res' = [op |-> ctor, self |-> Len(heap) + 1, input |-> input]

NewDefault == Construct(heap, BigIntegerDefault, "Default", <<>>, FALSE)

NewFromBytes(b) == Construct(heap, BigIntegerFromBytes(b), "FromBytes", b, FALSE)

NewCopy(i) ==
  Construct(heap, BigIntegerCopy(heap[i]), "Copy", <<>>, made[i].sentinel)

NewCopyStatic(s) ==
  Construct(heap, BigIntegerCopy(s), "Copy", <<>>, s = Error)

NewMove(i) ==
  LET m == BigIntegerMove(heap[i])
  IN Construct([heap EXCEPT ![i] = m.corpse], m.self, "Move", <<>>,
                made[i].sentinel)

CallInspect(i) ==
  /\ Idle
  /\ res' = [op |-> "Inspect", self |-> i, length |-> Length(heap[i]),
             isZero |-> IsZero(heap[i]), isError |-> IsError(heap[i])]
  /\ UNCHANGED <<heap, made>>

CallToByteArray(i) ==
  /\ Idle
  /\ res' = [op |-> "ToByteArray", self |-> i, bytes |-> ToByteArray(heap[i])]
  /\ UNCHANGED <<heap, made>>

\* the caller's buffer holds sz_vr bytes (none when sz_vr is negative)
CallCopyTo(i, sz_vr, fill) ==
  LET before == [k \in 1..sz_vr |-> fill]
      r == CopyTo(heap[i], before, sz_vr)
  IN /\ Idle
     /\ res' = [op |-> "CopyTo", self |-> i, sz_vr |-> sz_vr,
                before |-> before, after |-> r.vr, ok |-> r.ok]
     /\ UNCHANGED <<heap, made>>

\* toStringBase10 is only called on instances that hold bytes
CallToString(i, base) ==
  /\ Idle
  /\ base \in {2, 16} \/ Len(heap[i]) > 0
  /\ res' = [op |-> "ToString", self |-> i, base |-> base,
             text |-> ToString(heap[i], base)]
  /\ UNCHANGED <<heap, made>>

CallToStringDefault(i) ==
  /\ Idle
  /\ res' = [op |-> "ToStringDefault", self |-> i,
             text |-> ToString(heap[i], DefaultBase)]
  /\ UNCHANGED <<heap, made>>

CallCompare(i, j) ==
  /\ Idle
  /\ \E k \in KernelAnswers(heap[i], heap[j]) :
    /\ res' = [op |-> "Compare", a |-> i, b |-> j,
               lt |-> k.lt, gt |-> k.gt,
               eq |-> Eq(heap[i], heap[j]), ne |-> Ne(heap[i], heap[j]),
               le |-> LessEq(heap[i], heap[j], k),
               ge |-> GreaterEq(heap[i], heap[j], k)]
    /\ UNCHANGED <<heap, made>>

\* the kernels are only called with operands that hold bytes
CallOperatorLong(op, i, l2) ==
  /\ Idle
  /\ Len(heap[i]) > 0
  /\ InRange(op, heap[i], BigIntegerFromLong(l2))
  /\ res' = [op |-> "OperatorLong", oper |-> op, a |-> i, l2 |-> l2,
             value |-> OperatorLong(op, heap[i], l2)]
  /\ UNCHANGED <<heap, made>>

\* -x, then -(-x) and x + (-x) built from it
CallNegate(i) ==
  /\ Idle
  /\ Len(heap[i]) > 0
  /\ LET neg == Negate(heap[i])
     IN res' = [op |-> "Negate", self |-> i, neg |-> neg,
                negneg |-> Negate(neg), sum |-> Add(heap[i], neg)]
  /\ UNCHANGED <<heap, made>>

\* the caller is done with what the last call returned
Return ==
  /\ ~Idle
  /\ res' = [op |-> "none"]
  /\ UNCHANGED <<heap, made>>

Next ==
  \/ NewDefault
  \/ \E b \in Inputs : NewFromBytes(b)
  \/ \E i \in Instances : NewCopy(i)
  \/ \E s \in Statics : NewCopyStatic(s)
  \/ \E i \in Instances : NewMove(i)
  \/ \E i \in Instances : CallInspect(i)
  \/ \E i \in Instances : CallToByteArray(i)
  \/ \E i \in Instances, sz_vr \in -1..MaxCap, fill \in FillVals : CallCopyTo(i, sz_vr, fill)
  \/ \E i \in Instances, base \in Bases : CallToString(i, base)
  \/ \E i \in Instances : CallToStringDefault(i)
  \/ \E i, j \in Instances : CallCompare(i, j)
  \/ \E op \in Operators, i \in Instances, l2 \in Natives : CallOperatorLong(op, i, l2)
  \/ \E i \in Instances : CallNegate(i)
  \/ Return

Spec == Init /\ [][Next]_vars


(* ------------------------------ claims ------------------------------ *)

\* the instance still holds the bytes it was constructed with
Intact(i) == heap[i] = made[i].data

\* value of a little-endian byte sequence, the empty one standing for zero
ValueLE(b) == IF Len(b) = 0 THEN 0 ELSE Value(Reverse(b))

\* C1: for every little-endian byte sequence b, ToByteArray() of
\* BigInteger(b) is the canonical minimal-length encoding of the value of
\* b, and a second construction/ToByteArray round trip returns the same
\* bytes.
C1_RoundTripCanonical ==
  (res.op = "ToByteArray" /\ made[res.self].fromBytes /\ Intact(res.self))
    => /\ IsCanonical(Reverse(res.bytes))
       /\ ValueLE(res.bytes) = ValueLE(made[res.self].input)
       /\ ToByteArray(BigIntegerFromBytes(res.bytes)) = res.bytes

\* C2: every operator applied to a native operand l gives the result of
\* the same operator applied to BigInteger(l); in particular x % l is the
\* remainder.
C2_NativeAsPromoted ==
  res.op = "OperatorLong"
    => res.value = OperatorBig(res.oper, heap[res.a], BigIntegerFromLong(res.l2))

\* C3: the byte sequence of every constructed instance is the one it was
\* constructed with, whatever operations were called since.
C3_Immutable == \A i \in Instances : heap[i] = made[i].data

\* C4: an instance constructed from the empty byte sequence, or by the
\* default constructor, holds exactly the byte 0x00: Length() is 1,
\* IsZero() is true and IsError() is false.
C4_EmptyIsZero ==
  /\ (res.op = "Default" \/ (res.op = "FromBytes" /\ res.input = <<>>))
       => /\ heap[res.self] = <<0>>
          /\ Length(heap[res.self]) = 1
          /\ IsZero(heap[res.self]) /\ ~IsError(heap[res.self])
  /\ (/\ res.op = "Inspect"
      /\ Intact(res.self)
      /\ made[res.self].fromBytes /\ made[res.self].input = <<>>)
       => res.length = 1 /\ res.isZero /\ ~res.isError

C4_Witness ==
  /\ res.op = "Inspect"
  /\ made[res.self].fromBytes /\ made[res.self].input = <<>>
  /\ res.length = 1 /\ res.isZero /\ ~res.isError

\* C5: after any sequence of default, byte-sequence, copy and move
\* constructions, every instance other than Error (copies of the constant
\* Error are left aside here) has a non-empty byte sequence, so it is not
\* IsError() and compares unequal to Error.
C5_OnlyErrorIsEmpty ==
  \A i \in Instances :
    ~made[i].sentinel
      => Length(heap[i]) >= 1 /\ ~IsError(heap[i]) /\ Ne(heap[i], Error)

\* C6: CopyTo returns true exactly when the capacity is at least Length();
\* on false the buffer is untouched; on true its first Length() bytes are
\* the instance's bytes in little-endian order (ToByteArray()) and the
\* bytes behind them are untouched.
C6_CopyTo ==
  res.op = "CopyTo"
    => LET d == heap[res.self]
           n == Length(d)
       IN /\ res.ok = (res.sz_vr >= n)
          /\ Len(res.after) = Len(res.before)
          /\ ~res.ok => res.after = res.before
          /\ res.ok => /\ \A k \in 1..n : res.after[k] = d[n + 1 - k]
                       /\ SubSeq(res.after, 1, n) = ToByteArray(d)
                       /\ \A k \in (n + 1)..Len(res.after) :
                            res.after[k] = res.before[k]

C6_Witness ==
  /\ res.op = "CopyTo"
  /\ res.ok
  /\ Length(heap[res.self]) = 2
  /\ heap[res.self][1] # heap[res.self][2]
  /\ res.sz_vr > 2
  /\ res.after # res.before

\* exactly one of three
ExactlyOne(p, q, r) ==
  (p \/ q \/ r) /\ ~(p /\ q) /\ ~(p /\ r) /\ ~(q /\ r)

\* C7: for all instances a and b obtained from the constructors, also from
\* byte sequences with redundant high-order bytes, exactly one of a < b,
\* a == b, a > b holds.
C7_Totality ==
  (res.op = "Compare" /\ Len(heap[res.a]) > 0 /\ Len(heap[res.b]) > 0)
    => ExactlyOne(res.lt, res.eq, res.gt)

\* C8: for every x obtained from the constructors, -(-x) == x and
\* x + (-x) == Zero under operator==.
C8_Negation ==
  res.op = "Negate"
    => Eq(res.negneg, heap[res.self]) /\ Eq(res.sum, Zero)

\* C9: (a <= b) is (a < b) or (a == b), (a >= b) is (a > b) or (a == b),
\* and (a != b) is the negation of (a == b), also for equal operands and
\* for Error.
C9_NonStrict ==
  res.op = "Compare"
    => /\ res.le = (res.lt \/ res.eq)
       /\ res.ge = (res.gt \/ res.eq)
       /\ res.ne = ~res.eq

C9_Witness ==
  /\ res.op = "Compare"
  /\ IsError(heap[res.a]) /\ ~IsError(heap[res.b])
  /\ res.gt /\ ~res.lt /\ ~res.eq
  /\ res.ge /\ ~res.le /\ res.ne

\* C10: ToString(16), and ToString() without a base, starts with "0x";
\* ToString(2) is one 8-character group per stored byte, most significant
\* byte first, 8 * Length() characters in all; ToString(base) for a base
\* outside {2, 10, 16} is the text of ToString(10) and neither the base-2
\* nor the base-16 text.
C10_ToStringDispatch ==
  LET d == heap[res.self]
  IN /\ (res.op = "ToStringDefault" \/ (res.op = "ToString" /\ res.base = 16))
          => Len(res.text) >= 2 /\ SubSeq(res.text, 1, 2) = <<"0", "x">>
     /\ (res.op = "ToString" /\ res.base = 2)
          => /\ Len(res.text) = 8 * Length(d)
             /\ \A k \in 1..Length(d) :
                  SubSeq(res.text, 8 * k - 7, 8 * k) = parseBin(d[k])
     /\ (res.op = "ToString" /\ res.base \notin {2, 10, 16})
          => /\ res.text = ToString(d, 10)
             /\ res.text # ToString(d, 2)
             /\ res.text # ToString(d, 16)

C10_Witness ==
  /\ res.op = "ToString"
  /\ res.base = 8
  /\ Length(heap[res.self]) = 2
  /\ res.text = <<"-", "2", "5", "5">>

====
